---- MODULE Spec2Model ----
(***************************************************************************)
(* Model of the archimedes rebalancer (rebalancer.go, config.go) against   *)
(* a cluster that behaves like the CephClient of rebalancer_test.go.       *)
(*                                                                         *)
(* Weights are fixed-point numbers: an integer w stands for w weight       *)
(* units.  The expression ((cw+inc)*tenExp)/tenExp of DoReweight is a      *)
(* multiplication followed by a division by the same power of ten, with    *)
(* no rounding call in between; it is modelled as written.                 *)
(***************************************************************************)
EXTENDS Integers, FiniteSets, Sequences, TLC

\* ------------------------------------------------------------------ bounds
MaxWeight == 4
MaxPGs == 1
MaxCycles == 8

\* --------------------------------------------------------- program constants
roundToPlaces == 4

\* ----------------------------------------------------------- input domains
OSDs == {1, 2}
Weights == 0..MaxWeight
Increments == {-1, 0, 1, 4}
PGCeilings == {MaxPGs}
PGCounts == MaxPGs..(MaxPGs + 1)
\* what a record of a cycle holds for a count whose query returned an error,
\* and for a count that was not queried
QueryErr == -1
NotQueried == -2
NodeTypes == {"osd", "host"}
\* nodes of `ceph osd tree`: storage nodes of any weight, and a bucket
TreeNodes == {[Type |-> "osd", CrushWeight |-> w] : w \in Weights}
                \cup {[Type |-> "host", CrushWeight |-> 0]}

VARIABLES
    targetCrushWeightMap,   \* Rebalancer.targetCrushWeightMap: osd -> target weight
    crushWeightMap,         \* Rebalancer.crushWeightMap: osd -> last weight passed to doReweight
    weightIncrement,        \* Rebalancer.weightIncrement
    dryRun,                 \* Rebalancer.dryRun
    maxBackfillPGsAllowed,  \* Rebalancer.maxBackfillPGsAllowed
    maxRecoveryPGsAllowed,  \* Rebalancer.maxRecoveryPGsAllowed
    osdTree,                \* the cluster: node id -> [Type, CrushWeight]
    runState,               \* position of Run: "idle" (not called), "running", "returned"
    ctxDone,                \* the context passed to Run has been cancelled
    suppliedTarget,         \* the map given to WithTargetCrushWeightMap (never changed)
    initialTree,            \* the cluster at construction time (never changed)
    passed,                 \* cycles that passed the gate with a non-empty target map
    retryPending,           \* osds whose latest CrushReweight returned an error
    reweightCount,          \* osd -> CrushReweight commands that succeeded for it
    faulted,                \* osds that met an OSDTree or CrushReweight error
    droppedAbsent,          \* osds removed because a returned topology lacked them
    cycle,                  \* the loop of DoReweight in progress: snapshot and osds to go
    collect,                \* position of a Collect call: "idle" or "ranging"
    scraped,                \* the target_osds gauge the latest Collect emitted
    emitted,                \* the crushweight gauges of the Collect in progress or latest
    construction,           \* the options handed to New and what New returned
    last                    \* record of the latest DoReweight call

vars == <<targetCrushWeightMap, crushWeightMap, weightIncrement, dryRun,
          maxBackfillPGsAllowed, maxRecoveryPGsAllowed, osdTree, runState,
          ctxDone, suppliedTarget, initialTree, passed, retryPending,
          reweightCount, faulted, droppedAbsent, cycle, collect, scraped,
          emitted, construction, last>>

\* -------------------------------------------------------------- helpers
Min(a, b) == IF a <= b THEN a ELSE b

RECURSIVE Pow10(_)
Pow10(n) == IF n = 0 THEN 1 ELSE 10 * Pow10(n - 1)

EmptyMap == [o \in {} |-> 0]

\* delete(m, k) for every k in ks
DeleteKeys_zeroes(m, ks) == [o \in DOMAIN m |-> IF o \in ks THEN 0 ELSE m[o]]
DeleteKeys(m, ks) == [o \in (DOMAIN m) \ ks |-> m[o]]

\* all maps from a subset of OSDs to a value of S
PartialMaps(S) == UNION {[D -> S] : D \in SUBSET OSDs}

\* --------------------------------------------------------------- the gate
backfillExceeded_offByOne(bpgs) == bpgs > maxBackfillPGsAllowed + 1
backfillExceeded(bpgs) == bpgs > maxBackfillPGsAllowed

recoveryExceeded_atCeiling(rpgs) == rpgs >= maxRecoveryPGsAllowed
recoveryExceeded(rpgs) == rpgs > maxRecoveryPGsAllowed

\* ----------------------------------------------------------- the snapshot
extractCurrentWeights_anyType(tree, tcwm, treeErr) ==
    IF treeErr THEN EmptyMap
    ELSE [o \in {n \in DOMAIN tree : n \in DOMAIN tcwm} |-> tree[o].CrushWeight]
extractCurrentWeights(tree, tcwm, treeErr) ==
    IF treeErr THEN EmptyMap
    ELSE [o \in {n \in DOMAIN tree : tree[n].Type = "osd" /\ n \in DOMAIN tcwm}
            |-> tree[o].CrushWeight]

\* ------------------------------------------------------------ the planner
tenExp == Pow10(roundToPlaces)

NextWeight_uncapped(cw, tw, inc) == ((cw + inc) * tenExp) \div tenExp
NextWeight_halfStep(cw, tw, inc) == Min(((cw + (inc \div 2)) * tenExp) \div tenExp, tw)
NextWeight_noIncrement(cw, tw, inc) == Min((cw * tenExp) \div tenExp, tw)
NextWeight(cw, tw, inc) == Min(((cw + inc) * tenExp) \div tenExp, tw)

\* The branch of the loop body of DoReweight taken for one osd.
Plan_noDryRun(osd, cws, tcwm, cwm, inc, dry, failing) ==
    IF osd \notin DOMAIN cws THEN "absent"
    ELSE IF cws[osd] >= tcwm[osd] THEN "achieved"
    ELSE LET weight == NextWeight(cws[osd], tcwm[osd], inc) IN
         IF weight <= 0 THEN "nonpositive"
         ELSE IF osd \in DOMAIN cwm /\ cwm[osd] = weight THEN "optimal"
         ELSE IF osd \in failing THEN "failed"
         ELSE "applied"
Plan_noNonpositive(osd, cws, tcwm, cwm, inc, dry, failing) ==
    IF osd \notin DOMAIN cws THEN "absent"
    ELSE IF cws[osd] >= tcwm[osd] THEN "achieved"
    ELSE LET weight == NextWeight(cws[osd], tcwm[osd], inc) IN
         IF osd \in DOMAIN cwm /\ cwm[osd] = weight THEN "optimal"
         ELSE IF dry THEN "dryrun"
         ELSE IF osd \in failing THEN "failed"
         ELSE "applied"
Plan_strictAchieved(osd, cws, tcwm, cwm, inc, dry, failing) ==
    IF osd \notin DOMAIN cws THEN "absent"
    ELSE IF cws[osd] > tcwm[osd] THEN "achieved"
    ELSE LET weight == NextWeight(cws[osd], tcwm[osd], inc) IN
         IF weight <= 0 THEN "nonpositive"
         ELSE IF osd \in DOMAIN cwm /\ cwm[osd] = weight THEN "optimal"
         ELSE IF dry THEN "dryrun"
         ELSE IF osd \in failing THEN "failed"
         ELSE "applied"
Plan_noPlateau(osd, cws, tcwm, cwm, inc, dry, failing) ==
    IF osd \notin DOMAIN cws THEN "absent"
    ELSE IF cws[osd] >= tcwm[osd] THEN "achieved"
    ELSE LET weight == NextWeight(cws[osd], tcwm[osd], inc) IN
         IF weight <= 0 THEN "nonpositive"
         ELSE IF dry THEN "dryrun"
         ELSE IF osd \in failing THEN "failed"
         ELSE "applied"
Plan(osd, cws, tcwm, cwm, inc, dry, failing) ==
    IF osd \notin DOMAIN cws THEN "absent"
    ELSE IF cws[osd] >= tcwm[osd] THEN "achieved"
    ELSE LET weight == NextWeight(cws[osd], tcwm[osd], inc) IN
         IF weight <= 0 THEN "nonpositive"
         ELSE IF osd \in DOMAIN cwm /\ cwm[osd] = weight THEN "optimal"
         ELSE IF dry THEN "dryrun"
         ELSE IF osd \in failing THEN "failed"
         ELSE "applied"

\* The branches that delete the osd from targetCrushWeightMap.
Deletes_alsoApplied(branch) ==
    branch \in {"absent", "achieved", "nonpositive", "optimal", "dryrun", "applied"}
Deletes_keepsOptimal(branch) ==
    branch \in {"absent", "achieved", "nonpositive", "dryrun"}
Deletes_keepsAbsent(branch) == branch \in {"achieved", "nonpositive", "optimal", "dryrun"}
Deletes(branch) ==
    branch \in {"absent", "achieved", "nonpositive", "optimal", "dryrun"}

\* The branches that call doReweight.
Reweights_alsoDryRun(branch) == branch \in {"failed", "applied", "dryrun"}
Reweights(branch) == branch \in {"failed", "applied"}

\* ----------------------------------------------------------- the executor
\* doReweight writes the ledger and then calls CrushReweight.
doReweight(cwm, osd, weight) ==
    [o \in (DOMAIN cwm) \cup {osd} |-> IF o = osd THEN weight ELSE cwm[o]]

\* CrushReweight of the cluster: a successful command sets the node's weight.
CrushReweight(tree, osd, weight) ==
    [n \in DOMAIN tree |->
        IF n = osd THEN [tree[n] EXCEPT !.CrushWeight = weight] ELSE tree[n]]

\* doReweight for every osd of osds that the loop reweights (the ledger writes).
RECURSIVE LedgerAfter(_, _, _)
LedgerAfter(cwm, osds, weightOf) ==
    IF osds = {} THEN cwm
    ELSE LET o == CHOOSE x \in osds : TRUE
         IN LedgerAfter(doReweight(cwm, o, weightOf[o]), osds \ {o}, weightOf)

\* The cluster after the CrushReweight commands of the loop that succeeded.
RECURSIVE TreeAfter(_, _, _)
TreeAfter(tree, osds, weightOf) ==
    IF osds = {} THEN tree
    ELSE LET o == CHOOSE x \in osds : TRUE
         IN TreeAfter(CrushReweight(tree, o, weightOf[o]), osds \ {o}, weightOf)

\* ------------------------------------------------------------- the state
NoCycle ==
    [outcome |-> "none", bpgs |-> NotQueried, rpgs |-> NotQueried, branch |-> EmptyMap,
     issued |-> {}, target |-> EmptyMap, ledger |-> EmptyMap, cws |-> EmptyMap,
     retry |-> {}, tree |-> EmptyMap]

\* no Collect has returned yet
NoScrape == -1

\* no Collect has ranged over crushWeightMap yet
NoGauges == [base |-> EmptyMap, crushweight |-> EmptyMap]

\* no loop of DoReweight is in progress
NoLoop == [active |-> FALSE, cws |-> EmptyMap, todo |-> {}]

\* ------------------------------------------------------------------ New
\* The values New gives the fields before it applies the options; the
\* increment 0.02 is written in hundredths.
defaultMaxBackfillPGsAllowed == 10
defaultMaxRecoveryPGsAllowed == 10
defaultWeightIncrement == 2
defaultDryRun == TRUE

\* The options a caller may hand to New: each is given or not, with a value.
Options ==
    [withCephClient : BOOLEAN,
     withTargetCrushWeightMap : BOOLEAN, targetCrushWeightMap : PartialMaps(Weights),
     withMaxBackfillPGsAllowed : BOOLEAN, maxBackfillPGsAllowed : PGCeilings,
     withMaxRecoveryPGsAllowed : BOOLEAN, maxRecoveryPGsAllowed : PGCeilings,
     withWeightIncrement : BOOLEAN, weightIncrement : Increments,
     withDryRun : BOOLEAN, dryRun : BOOLEAN]

\* The Rebalancer of New after 'for _, fn := range opt { fn(r) }'.
Configured(opt) ==
    [ceph |-> opt.withCephClient,
     targetCrushWeightMap |->
         IF opt.withTargetCrushWeightMap THEN opt.targetCrushWeightMap ELSE EmptyMap,
     maxBackfillPGsAllowed |->
         IF opt.withMaxBackfillPGsAllowed THEN opt.maxBackfillPGsAllowed
         ELSE defaultMaxBackfillPGsAllowed,
     maxRecoveryPGsAllowed |->
         IF opt.withMaxRecoveryPGsAllowed THEN opt.maxRecoveryPGsAllowed
         ELSE defaultMaxRecoveryPGsAllowed,
     weightIncrement |->
         IF opt.withWeightIncrement THEN opt.weightIncrement ELSE defaultWeightIncrement,
     dryRun |-> IF opt.withDryRun THEN opt.dryRun ELSE defaultDryRun]

\* What New returns: "ok" with the Rebalancer, or the text of its error.
New_noCephCheck(opt) ==
    IF Cardinality(DOMAIN Configured(opt).targetCrushWeightMap) = 0
    THEN "no weight map found"
    ELSE "ok"
New(opt) ==
    IF Cardinality(DOMAIN Configured(opt).targetCrushWeightMap) = 0
    THEN "no weight map found"
    ELSE IF ~Configured(opt).ceph THEN "no ceph client found"
    ELSE "ok"

\* New: the state after construction succeeded, with any options applied.
Init ==
    /\ targetCrushWeightMap \in PartialMaps(Weights) \ {EmptyMap}
    /\ crushWeightMap = EmptyMap
    /\ weightIncrement \in Increments
    /\ dryRun \in BOOLEAN
    /\ maxBackfillPGsAllowed \in PGCeilings
    /\ maxRecoveryPGsAllowed \in PGCeilings
    /\ osdTree \in UNION {[D -> TreeNodes] : D \in SUBSET OSDs}
    /\ runState = "idle"
    /\ ctxDone = FALSE
    /\ suppliedTarget = targetCrushWeightMap
    /\ initialTree = osdTree
    /\ passed = 0
    /\ retryPending = {}
    /\ reweightCount = [o \in OSDs |-> 0]
    /\ faulted = {}
    /\ droppedAbsent = {}
    /\ cycle = NoLoop
    /\ collect = "idle"
    /\ scraped = NoScrape
    /\ emitted = NoGauges
    /\ construction =
          [opt |-> [withCephClient |-> TRUE,
                    withTargetCrushWeightMap |-> TRUE,
                    targetCrushWeightMap |-> targetCrushWeightMap,
                    withMaxBackfillPGsAllowed |-> TRUE,
                    maxBackfillPGsAllowed |-> maxBackfillPGsAllowed,
                    withMaxRecoveryPGsAllowed |-> TRUE,
                    maxRecoveryPGsAllowed |-> maxRecoveryPGsAllowed,
                    withWeightIncrement |-> TRUE, weightIncrement |-> weightIncrement,
                    withDryRun |-> TRUE, dryRun |-> dryRun],
           result |-> "ok"]
    /\ last = NoCycle

\* ------------------------------------------------------------- the cycle
\* The record of a cycle that returned before the loop over the target map.
Held(outcome, bpgs, rpgs) ==
    /\ last' = [outcome |-> outcome, bpgs |-> bpgs, rpgs |-> rpgs,
                branch |-> EmptyMap, issued |-> {}, target |-> targetCrushWeightMap,
                ledger |-> crushWeightMap, cws |-> EmptyMap, retry |-> retryPending,
                tree |-> EmptyMap]
    /\ UNCHANGED <<targetCrushWeightMap, crushWeightMap, osdTree, passed, retryPending,
                   reweightCount, faulted, droppedAbsent>>

\* extractCurrentWeights and the loop over the target map; treeErr says that
\* OSDTree returned an error, failing holds the osds whose CrushReweight does.
Loop_rangesSupplied(bpgs, rpgs, treeErr, failing) ==
    LET cws == extractCurrentWeights(osdTree, suppliedTarget, treeErr)
        managed == DOMAIN suppliedTarget
        branch == [o \in managed |->
                     Plan(o, cws, suppliedTarget, crushWeightMap,
                          weightIncrement, dryRun, failing)]
        weightOf == [o \in {x \in managed : Reweights(branch[x])} |->
                       NextWeight(cws[o], suppliedTarget[o], weightIncrement)]
    IN /\ targetCrushWeightMap' =
             DeleteKeys(targetCrushWeightMap, {o \in managed : Deletes(branch[o])})
       /\ crushWeightMap' = LedgerAfter(crushWeightMap, DOMAIN weightOf, weightOf)
       /\ osdTree' = TreeAfter(osdTree, {o \in managed : branch[o] = "applied"}, weightOf)
       /\ passed' = IF managed = {} THEN passed ELSE passed + 1
       /\ retryPending' = (retryPending \ managed) \cup {o \in managed : branch[o] = "failed"}
       /\ reweightCount' = [o \in OSDs |->
                              IF o \in managed /\ branch[o] = "applied"
                              THEN reweightCount[o] + 1 ELSE reweightCount[o]]
       /\ faulted' = faulted \cup {o \in managed : treeErr \/ branch[o] = "failed"}
       /\ droppedAbsent' =
             droppedAbsent \cup {o \in managed : ~treeErr /\ branch[o] = "absent"}
       /\ last' = [outcome |-> IF treeErr THEN "treeErr" ELSE "planned",
                   bpgs |-> bpgs, rpgs |-> rpgs, branch |-> branch,
                   issued |-> {<<o, weightOf[o]>> : o \in DOMAIN weightOf},
                   target |-> targetCrushWeightMap, ledger |-> crushWeightMap,
                   cws |-> cws, retry |-> retryPending,
                   tree |-> IF treeErr THEN EmptyMap ELSE osdTree]
Loop_abortsOnFailure(bpgs, rpgs, treeErr, failing) ==
    LET cws == extractCurrentWeights(osdTree, targetCrushWeightMap, treeErr)
        managed == DOMAIN targetCrushWeightMap
        branch == [o \in managed |->
                     Plan(o, cws, targetCrushWeightMap, crushWeightMap,
                          weightIncrement, dryRun, failing)]
        aborted == \E y \in managed : branch[y] \in {"absent", "nonpositive", "failed"}
        weightOf == [o \in {x \in managed : ~aborted /\ Reweights(branch[x])} |->
                       NextWeight(cws[o], targetCrushWeightMap[o], weightIncrement)]
    IN /\ targetCrushWeightMap' =
             DeleteKeys(targetCrushWeightMap, {o \in managed : Deletes(branch[o])})
       /\ crushWeightMap' = LedgerAfter(crushWeightMap, DOMAIN weightOf, weightOf)
       /\ osdTree' = TreeAfter(osdTree, {o \in DOMAIN weightOf : branch[o] = "applied"}, weightOf)
       /\ passed' = IF managed = {} THEN passed ELSE passed + 1
       /\ retryPending' = (retryPending \ managed) \cup {o \in managed : branch[o] = "failed"}
       /\ reweightCount' = [o \in OSDs |->
                              IF o \in managed /\ branch[o] = "applied"
                              THEN reweightCount[o] + 1 ELSE reweightCount[o]]
       /\ faulted' = faulted \cup {o \in managed : treeErr \/ branch[o] = "failed"}
       /\ droppedAbsent' =
             droppedAbsent \cup {o \in managed : ~treeErr /\ branch[o] = "absent"}
       /\ last' = [outcome |-> IF treeErr THEN "treeErr" ELSE "planned",
                   bpgs |-> bpgs, rpgs |-> rpgs, branch |-> branch,
                   issued |-> {<<o, weightOf[o]>> : o \in DOMAIN weightOf},
                   target |-> targetCrushWeightMap, ledger |-> crushWeightMap,
                   cws |-> cws, retry |-> retryPending,
                   tree |-> IF treeErr THEN EmptyMap ELSE osdTree]
Loop(bpgs, rpgs, treeErr, failing) ==
    LET cws == extractCurrentWeights(osdTree, targetCrushWeightMap, treeErr)
        managed == DOMAIN targetCrushWeightMap
        branch == [o \in managed |->
                     Plan(o, cws, targetCrushWeightMap, crushWeightMap,
                          weightIncrement, dryRun, failing)]
        weightOf == [o \in {x \in managed : Reweights(branch[x])} |->
                       NextWeight(cws[o], targetCrushWeightMap[o], weightIncrement)]
    IN /\ targetCrushWeightMap' =
             DeleteKeys(targetCrushWeightMap, {o \in managed : Deletes(branch[o])})
       /\ crushWeightMap' = LedgerAfter(crushWeightMap, DOMAIN weightOf, weightOf)
       /\ osdTree' = TreeAfter(osdTree, {o \in managed : branch[o] = "applied"}, weightOf)
       /\ passed' = IF managed = {} THEN passed ELSE passed + 1
       /\ retryPending' = (retryPending \ managed) \cup {o \in managed : branch[o] = "failed"}
       /\ reweightCount' = [o \in OSDs |->
                              IF o \in managed /\ branch[o] = "applied"
                              THEN reweightCount[o] + 1 ELSE reweightCount[o]]
       /\ faulted' = faulted \cup {o \in managed : treeErr \/ branch[o] = "failed"}
       /\ droppedAbsent' =
             droppedAbsent \cup {o \in managed : ~treeErr /\ branch[o] = "absent"}
       /\ last' = [outcome |-> IF treeErr THEN "treeErr" ELSE "planned",
                   bpgs |-> bpgs, rpgs |-> rpgs, branch |-> branch,
                   issued |-> {<<o, weightOf[o]>> : o \in DOMAIN weightOf},
                   target |-> targetCrushWeightMap, ledger |-> crushWeightMap,
                   cws |-> cws, retry |-> retryPending,
                   tree |-> IF treeErr THEN EmptyMap ELSE osdTree]

\* The osds for which the loop would call CrushReweight: the calls whose
\* result the cluster decides.
Reaching(treeErr) ==
    LET cws == extractCurrentWeights(osdTree, targetCrushWeightMap, treeErr)
    IN {o \in DOMAIN targetCrushWeightMap :
          Reweights(Plan(o, cws, targetCrushWeightMap, crushWeightMap,
                         weightIncrement, dryRun, {}))}

\* One whole call of DoReweight; every collaborator call answers with a
\* count or an error at the point where the code makes it.
DoReweightBody_ignoresErr ==
    \E bpgs \in PGCounts \cup {QueryErr} :
        IF bpgs # QueryErr /\ backfillExceeded(bpgs) THEN Held("backfillHigh", bpgs, NotQueried)
        ELSE \E rpgs \in PGCounts \cup {QueryErr} :
            IF rpgs # QueryErr /\ recoveryExceeded(rpgs) THEN Held("recoveryHigh", bpgs, rpgs)
            ELSE \E treeErr \in BOOLEAN :
                   \E failing \in SUBSET Reaching(treeErr) :
                      Loop(bpgs, rpgs, treeErr, failing)
DoReweightBody ==
    \E bpgs \in PGCounts \cup {QueryErr} :
        IF bpgs = QueryErr THEN Held("backfillErr", QueryErr, NotQueried)
        ELSE IF backfillExceeded(bpgs) THEN Held("backfillHigh", bpgs, NotQueried)
        ELSE \E rpgs \in PGCounts \cup {QueryErr} :
            IF rpgs = QueryErr THEN Held("recoveryErr", bpgs, QueryErr)
            ELSE IF recoveryExceeded(rpgs) THEN Held("recoveryHigh", bpgs, rpgs)
            ELSE \E treeErr \in BOOLEAN :
                   \E failing \in SUBSET Reaching(treeErr) :
                      Loop(bpgs, rpgs, treeErr, failing)

\* DoReweight called by the host itself, as rebalancer_test.go does.
DoReweight ==
    /\ runState = "idle"
    /\ passed < MaxCycles
    /\ DoReweightBody
    /\ UNCHANGED <<weightIncrement, dryRun, maxBackfillPGsAllowed, maxRecoveryPGsAllowed,
                   runState, ctxDone, suppliedTarget, initialTree, cycle, collect, scraped,
                   emitted, construction>>

\* ---------------------------------------------------------------- Run
\* Run is called: the ticker is created and the loop is entered.
RunStart ==
    /\ runState = "idle"
    /\ last.outcome = "none"
    /\ runState' = "running"
    /\ UNCHANGED <<targetCrushWeightMap, crushWeightMap, weightIncrement, dryRun,
                   maxBackfillPGsAllowed, maxRecoveryPGsAllowed, osdTree, ctxDone,
                   suppliedTarget, initialTree, passed, retryPending,
                   reweightCount, faulted, droppedAbsent, cycle, collect, scraped,
                   emitted, construction, last>>

\* The caller cancels the context.
Cancel ==
    /\ ~ctxDone
    /\ runState = "running"
    /\ ctxDone' = TRUE
    /\ UNCHANGED <<targetCrushWeightMap, crushWeightMap, weightIncrement, dryRun,
                   maxBackfillPGsAllowed, maxRecoveryPGsAllowed, osdTree, runState,
                   suppliedTarget, initialTree, passed, retryPending,
                   reweightCount, faulted, droppedAbsent, cycle, collect, scraped,
                   emitted, construction, last>>

\* select takes the case <-ctx.Done().
RunCtxDone ==
    /\ runState = "running"
    /\ ctxDone
    /\ runState' = "returned"
    /\ UNCHANGED <<targetCrushWeightMap, crushWeightMap, weightIncrement, dryRun,
                   maxBackfillPGsAllowed, maxRecoveryPGsAllowed, osdTree, ctxDone,
                   suppliedTarget, initialTree, passed, retryPending,
                   reweightCount, faulted, droppedAbsent, cycle, collect, scraped,
                   emitted, construction, last>>

\* select takes the case <-ticker.C and the target map is empty.
RunTickDrained_oneLeft ==
    /\ runState = "running"
    /\ Cardinality(DOMAIN targetCrushWeightMap) <= 1
    /\ runState' = "returned"
    /\ UNCHANGED <<targetCrushWeightMap, crushWeightMap, weightIncrement, dryRun,
                   maxBackfillPGsAllowed, maxRecoveryPGsAllowed, osdTree, ctxDone,
                   suppliedTarget, initialTree, passed, retryPending,
                   reweightCount, faulted, droppedAbsent, cycle, collect, scraped,
                   emitted, construction, last>>
RunTickDrained ==
    /\ runState = "running"
    /\ Cardinality(DOMAIN targetCrushWeightMap) <= 0
    /\ runState' = "returned"
    /\ UNCHANGED <<targetCrushWeightMap, crushWeightMap, weightIncrement, dryRun,
                   maxBackfillPGsAllowed, maxRecoveryPGsAllowed, osdTree, ctxDone,
                   suppliedTarget, initialTree, passed, retryPending,
                   reweightCount, faulted, droppedAbsent, cycle, collect, scraped,
                   emitted, construction, last>>

\* select takes the case <-ticker.C and DoReweight is called.
RunTickReweight_noDrainCheck ==
    /\ runState = "running"
    /\ passed < MaxCycles
    /\ DoReweightBody
    /\ UNCHANGED <<weightIncrement, dryRun, maxBackfillPGsAllowed, maxRecoveryPGsAllowed,
                   runState, ctxDone, suppliedTarget, initialTree, cycle, collect, scraped,
                   emitted, construction>>
RunTickReweight ==
    /\ runState = "running"
    /\ Cardinality(DOMAIN targetCrushWeightMap) > 0
    /\ passed < MaxCycles
    /\ DoReweightBody
    /\ UNCHANGED <<weightIncrement, dryRun, maxBackfillPGsAllowed, maxRecoveryPGsAllowed,
                   runState, ctxDone, suppliedTarget, initialTree, cycle, collect, scraped,
                   emitted, construction>>

Next ==
    \/ DoReweight
    \/ RunStart
    \/ Cancel
    \/ RunCtxDone
    \/ RunTickDrained
    \/ RunTickReweight

Spec == Init /\ [][Next]_vars

\* ------------------------------------------------- a cluster that grows
\* A storage node joins the cluster: OSDTree returns it from now on.  The
\* weight it joins with is read only while its id is in the target map, as
\* the weights of Init are; one joining weight is explored.
JoinWeights == {0}

OSDAppears ==
    /\ \E o \in OSDs \ DOMAIN osdTree, w \in JoinWeights :
          osdTree' = [n \in (DOMAIN osdTree) \cup {o} |->
                        IF n = o THEN [Type |-> "osd", CrushWeight |-> w]
                        ELSE osdTree[n]]
    /\ UNCHANGED <<targetCrushWeightMap, crushWeightMap, weightIncrement, dryRun,
                   maxBackfillPGsAllowed, maxRecoveryPGsAllowed, runState, ctxDone,
                   suppliedTarget, initialTree, passed, retryPending,
                   reweightCount, faulted, droppedAbsent, cycle, collect, scraped,
                   emitted, construction, last>>

NextTopo ==
    \/ Next
    \/ OSDAppears

SpecTopo == Init /\ [][NextTopo]_vars

\* ------------------------------------- the loop and Collect, step by step
\* Collect runs on the goroutine of the metrics server while Run runs the
\* cycles, and neither takes a lock: the loop of DoReweight is modelled here
\* one iteration at a time so that a Collect can fall between two of them.
\* The variables that record whole cycles (last, passed, retryPending,
\* reweightCount, faulted, droppedAbsent) are not kept at this grain.  A cycle
\* that the gate holds writes nothing and is left out.

\* DoReweight passes the gate and takes the snapshot; the loop is entered.
CycleBegin ==
    /\ ~cycle.active
    /\ Cardinality(DOMAIN targetCrushWeightMap) > 0
    /\ \E treeErr \in BOOLEAN :
          cycle' = [active |-> TRUE,
                    cws |-> extractCurrentWeights(osdTree, targetCrushWeightMap, treeErr),
                    todo |-> DOMAIN targetCrushWeightMap]
    /\ UNCHANGED <<targetCrushWeightMap, crushWeightMap, weightIncrement, dryRun,
                   maxBackfillPGsAllowed, maxRecoveryPGsAllowed, osdTree, runState,
                   ctxDone, suppliedTarget, initialTree, passed, retryPending,
                   reweightCount, faulted, droppedAbsent, collect, scraped,
                   emitted, construction, last>>

\* One iteration of the loop over the target map, for an osd the range has
\* not visited yet; fails says that its CrushReweight returns an error.
LoopStep ==
    /\ cycle.active
    /\ \E o \in cycle.todo, fails \in BOOLEAN :
          LET branch == Plan(o, cycle.cws, targetCrushWeightMap, crushWeightMap,
                             weightIncrement, dryRun, IF fails THEN {o} ELSE {})
              weight == NextWeight(cycle.cws[o], targetCrushWeightMap[o], weightIncrement)
          IN /\ targetCrushWeightMap' =
                   IF Deletes(branch) THEN DeleteKeys(targetCrushWeightMap, {o})
                   ELSE targetCrushWeightMap
             /\ crushWeightMap' =
                   IF Reweights(branch) THEN doReweight(crushWeightMap, o, weight)
                   ELSE crushWeightMap
             /\ osdTree' =
                   IF branch = "applied" THEN CrushReweight(osdTree, o, weight)
                   ELSE osdTree
             /\ cycle' = [cycle EXCEPT !.todo = @ \ {o}]
    /\ UNCHANGED <<weightIncrement, dryRun, maxBackfillPGsAllowed, maxRecoveryPGsAllowed,
                   runState, ctxDone, suppliedTarget, initialTree, passed, retryPending,
                   reweightCount, faulted, droppedAbsent, collect, scraped,
                   emitted, construction, last>>

\* The range over the target map is exhausted and DoReweight returns.
CycleEnd ==
    /\ cycle.active
    /\ cycle.todo = {}
    /\ cycle' = NoLoop
    /\ UNCHANGED <<targetCrushWeightMap, crushWeightMap, weightIncrement, dryRun,
                   maxBackfillPGsAllowed, maxRecoveryPGsAllowed, osdTree, runState,
                   ctxDone, suppliedTarget, initialTree, passed, retryPending,
                   reweightCount, faulted, droppedAbsent, collect, scraped,
                   emitted, construction, last>>

\* The entries of crushWeightMap that the range of Collect has not produced.
Unvisited_trackedOnly ==
    ((DOMAIN crushWeightMap) \cap (DOMAIN targetCrushWeightMap))
        \ DOMAIN emitted.crushweight
Unvisited == (DOMAIN crushWeightMap) \ DOMAIN emitted.crushweight

\* A scrape calls Collect, which starts to range over crushWeightMap.
CollectBegin ==
    /\ collect = "idle"
    /\ collect' = "ranging"
    /\ emitted' = [base |-> crushWeightMap, crushweight |-> EmptyMap]
    /\ UNCHANGED <<targetCrushWeightMap, crushWeightMap, weightIncrement, dryRun,
                   maxBackfillPGsAllowed, maxRecoveryPGsAllowed, osdTree, runState,
                   ctxDone, suppliedTarget, initialTree, passed, retryPending,
                   reweightCount, faulted, droppedAbsent, cycle, scraped, construction, last>>

\* The range produces one entry of crushWeightMap and Collect sends its gauge.
\* An entry written while the range is under way is read as it is when the
\* range comes to it, and one created meanwhile may be produced or skipped.
CollectEmit ==
    /\ collect = "ranging"
    /\ \E o \in Unvisited :
          emitted' = [emitted EXCEPT !.crushweight =
                        [x \in (DOMAIN @) \cup {o} |->
                           IF x = o THEN crushWeightMap[o] ELSE @[x]]]
    /\ UNCHANGED <<targetCrushWeightMap, crushWeightMap, weightIncrement, dryRun,
                   maxBackfillPGsAllowed, maxRecoveryPGsAllowed, osdTree, runState,
                   ctxDone, suppliedTarget, initialTree, passed, retryPending,
                   reweightCount, faulted, droppedAbsent, cycle, collect, scraped, construction, last>>

\* Collect ends its range, having produced every entry that was there when
\* it began, reads len(targetCrushWeightMap) and returns.
CollectEnd ==
    /\ collect = "ranging"
    /\ (DOMAIN emitted.base) \cap Unvisited = {}
    /\ collect' = "idle"
    /\ scraped' = Cardinality(DOMAIN targetCrushWeightMap)
    /\ emitted' = [emitted EXCEPT !.base = EmptyMap]
    /\ UNCHANGED <<targetCrushWeightMap, crushWeightMap, weightIncrement, dryRun,
                   maxBackfillPGsAllowed, maxRecoveryPGsAllowed, osdTree, runState,
                   ctxDone, suppliedTarget, initialTree, passed, retryPending,
                   reweightCount, faulted, droppedAbsent, cycle, construction, last>>

NextConc ==
    \/ CycleBegin
    \/ LoopStep
    \/ CycleEnd
    \/ CollectBegin
    \/ CollectEmit
    \/ CollectEnd

SpecConc == Init /\ [][NextConc]_vars

\* ------------------------------------------------------- the call of New
\* Before New is called there is no Rebalancer: the fields hold Go's zero
\* values and the options of the call are chosen.
InitNew ==
    /\ construction \in [opt : Options, result : {"pending"}]
    /\ targetCrushWeightMap = EmptyMap
    /\ crushWeightMap = EmptyMap
    /\ weightIncrement = 0
    /\ dryRun = FALSE
    /\ maxBackfillPGsAllowed = 0
    /\ maxRecoveryPGsAllowed = 0
    /\ osdTree = EmptyMap
    /\ runState = "idle"
    /\ ctxDone = FALSE
    /\ suppliedTarget = EmptyMap
    /\ initialTree = EmptyMap
    /\ passed = 0
    /\ retryPending = {}
    /\ reweightCount = [o \in OSDs |-> 0]
    /\ faulted = {}
    /\ droppedAbsent = {}
    /\ cycle = NoLoop
    /\ collect = "idle"
    /\ scraped = NoScrape
    /\ emitted = NoGauges
    /\ last = NoCycle

\* New runs: on an error it returns nil and the error, else the Rebalancer.
NewCall ==
    /\ construction.result = "pending"
    /\ construction' = [construction EXCEPT !.result = New(construction.opt)]
    /\ IF New(construction.opt) = "ok"
       THEN LET r == Configured(construction.opt)
            IN /\ targetCrushWeightMap' = r.targetCrushWeightMap
               /\ suppliedTarget' = r.targetCrushWeightMap
               /\ weightIncrement' = r.weightIncrement
               /\ dryRun' = r.dryRun
               /\ maxBackfillPGsAllowed' = r.maxBackfillPGsAllowed
               /\ maxRecoveryPGsAllowed' = r.maxRecoveryPGsAllowed
       ELSE UNCHANGED <<targetCrushWeightMap, suppliedTarget, weightIncrement, dryRun,
                        maxBackfillPGsAllowed, maxRecoveryPGsAllowed>>
    /\ UNCHANGED <<crushWeightMap, osdTree, runState, ctxDone, initialTree, passed,
                   retryPending, reweightCount, faulted, droppedAbsent, cycle, collect,
                   scraped, emitted, last>>

SpecNew == InitNew /\ [][NewCall]_vars

\* ================================================================ properties
Managed == DOMAIN targetCrushWeightMap

\* the osds for which the latest cycle called CrushReweight
IssuedOsds == {p[1] : p \in last.issued}

\* the latest cycle reached the loop over the target map
LoopReached == last.outcome \in {"planned", "treeErr"}

CeilDiv(a, b) == (a + b - 1) \div b

\* the osd was a storage node below its target when the Rebalancer was built
StartedBelow(o) ==
    /\ o \in DOMAIN suppliedTarget
    /\ o \in DOMAIN initialTree
    /\ initialTree[o].Type = "osd"
    /\ initialTree[o].CrushWeight < suppliedTarget[o]

\* C1: a cycle that reads a backfilling count above maxBackfillPGsAllowed or a
\* recovering count above maxRecoveryPGsAllowed issues no CrushReweight and
\* leaves targetCrushWeightMap as it was.
C1_GateInvariant ==
    (last.bpgs > maxBackfillPGsAllowed \/ last.rpgs > maxRecoveryPGsAllowed)
        => /\ last.issued = {}
           /\ targetCrushWeightMap = last.target

\* C1 witness: a live cycle was held by the gate while a managed storage node
\* was below its target.
C1_Witness ==
    /\ last.outcome \in {"backfillHigh", "recoveryHigh"}
    /\ ~dryRun
    /\ weightIncrement > 0
    /\ \E o \in Managed :
          /\ o \in DOMAIN osdTree
          /\ osdTree[o].Type = "osd"
          /\ osdTree[o].CrushWeight < targetCrushWeightMap[o]

\* C2 (as claimed): a cycle whose OSDTree query fails issues no CrushReweight,
\* removes no node from targetCrushWeightMap and leaves crushWeightMap alone.
C2_SnapshotFailureNoMutation ==
    last.outcome = "treeErr"
        => /\ last.issued = {}
           /\ targetCrushWeightMap = last.target
           /\ crushWeightMap = last.ledger

\* C3 (as claimed): in live mode a node whose CrushReweight failed stays in
\* targetCrushWeightMap, and the next cycle that reaches the loop while the
\* node is still below its target calls CrushReweight for it again.
C3_ApplyFailureRetried ==
    ~dryRun =>
        /\ \A o \in DOMAIN last.branch :
              last.branch[o] = "failed" => o \in Managed
        /\ \A o \in last.retry :
              (/\ last.outcome = "planned"
               /\ o \in DOMAIN last.cws
               /\ last.cws[o] < last.target[o])
                  => o \in IssuedOsds

\* C4 (as claimed): after a failed CrushReweight the node's crushWeightMap entry
\* is what it was before the call (absent, or the same value).
C4_LedgerOnlyOnSuccess ==
    \A o \in DOMAIN last.branch :
        last.branch[o] = "failed"
            => /\ (o \in DOMAIN crushWeightMap) = (o \in DOMAIN last.ledger)
               /\ (o \in DOMAIN crushWeightMap /\ o \in DOMAIN last.ledger)
                     => crushWeightMap[o] = last.ledger[o]

\* C5: in live mode with a positive increment, a node that started below its
\* target is still managed only while at most ceil((target-current)/inc) cycles
\* have reached the loop: the cycle after that removes it (epsilon = 1).
C5_Convergence ==
    \A o \in Managed :
        (~dryRun /\ weightIncrement > 0 /\ StartedBelow(o))
            => passed <= CeilDiv(suppliedTarget[o] - initialTree[o].CrushWeight,
                                 weightIncrement)

\* C5 witness: a node that needed three increments or more was removed as
\* achieved by cycle number ceil((target-current)/inc) + 1.
C5_Witness ==
    \E o \in DOMAIN last.branch :
        /\ ~dryRun
        /\ weightIncrement > 0
        /\ StartedBelow(o)
        /\ CeilDiv(suppliedTarget[o] - initialTree[o].CrushWeight, weightIncrement) >= 3
        /\ passed = CeilDiv(suppliedTarget[o] - initialTree[o].CrushWeight,
                            weightIncrement) + 1
        /\ last.branch[o] = "achieved"
        /\ o \notin Managed

\* C6: under dry-run no cycle calls CrushReweight (the cluster keeps its
\* weights), and a cycle that reaches the loop leaves targetCrushWeightMap empty.
C6_DryRunInvariant ==
    dryRun => /\ last.issued = {}
              /\ osdTree = initialTree
              /\ LoopReached => Managed = {}

\* C6 witness: a dry-run cycle evaluated two nodes and took the dry-run branch.
C6_Witness ==
    /\ dryRun
    /\ last.outcome = "planned"
    /\ Cardinality(DOMAIN last.branch) = 2
    /\ \E o \in DOMAIN last.branch : last.branch[o] = "dryrun"
    /\ Managed = {}

\* C7 (as claimed): a node that takes the dry-run branch is removed from
\* targetCrushWeightMap and its computed next weight is in crushWeightMap.
C7_DryRunRecordsWeight ==
    \A o \in DOMAIN last.branch :
        last.branch[o] = "dryrun"
            => /\ o \notin Managed
               /\ o \in DOMAIN crushWeightMap
               /\ crushWeightMap[o] =
                    NextWeight(last.cws[o], last.target[o], weightIncrement)

\* C7 (amended): a node that takes the dry-run branch is removed from
\* targetCrushWeightMap and nothing is written to crushWeightMap, which stays
\* empty under dry-run.
C7_DryRunLeavesLedger ==
    /\ dryRun => crushWeightMap = EmptyMap
    /\ \A o \in DOMAIN last.branch :
          last.branch[o] = "dryrun"
              => /\ o \notin Managed
                 /\ crushWeightMap = last.ledger

\* C7 witness: a node with a positive weight below its target took the
\* dry-run branch.
C7_Witness ==
    \E o \in DOMAIN last.branch :
        /\ last.branch[o] = "dryrun"
        /\ last.cws[o] > 0
        /\ NextWeight(last.cws[o], last.target[o], weightIncrement) > last.cws[o]

\* C8 (as claimed): a value written to a node's crushWeightMap entry is never
\* lower than the value the entry held before.
C8_LedgerMonotonic ==
    [][\A o \in (DOMAIN crushWeightMap) \cap (DOMAIN crushWeightMap') :
          crushWeightMap'[o] >= crushWeightMap[o]]_vars

\* C9: every crushWeightMap entry and every weight passed to CrushReweight is
\* at most the target weight supplied for that node.
C9_AtMostTarget ==
    /\ \A o \in DOMAIN crushWeightMap :
          o \in DOMAIN suppliedTarget /\ crushWeightMap[o] <= suppliedTarget[o]
    /\ \A p \in last.issued :
          p[1] \in DOMAIN suppliedTarget /\ p[2] <= suppliedTarget[p[1]]

\* C9 witness: a CrushReweight was issued at the target because the increment
\* would have taken the weight above it.
C9_Witness ==
    \E p \in last.issued :
        /\ p[2] = suppliedTarget[p[1]]
        /\ last.cws[p[1]] + weightIncrement > suppliedTarget[p[1]]
        /\ crushWeightMap[p[1]] = p[2]

\* the scenario of C10: targets {1: 4, 2: 4}, increment 4, both weights 0, live
C10_Scenario ==
    /\ suppliedTarget = [o \in {1, 2} |-> 4]
    /\ weightIncrement = 4
    /\ ~dryRun
    /\ initialTree = [o \in {1, 2} |-> [Type |-> "osd", CrushWeight |-> 0]]

\* C10 (as claimed): in live mode a node whose CrushReweight to its target
\* succeeded is out of targetCrushWeightMap at the end of that cycle.
C10_RemovedSameCycle ==
    \A o \in DOMAIN last.branch :
        (~dryRun /\ last.branch[o] = "applied" /\ <<o, last.target[o]>> \in last.issued)
            => o \notin Managed

\* C10 (amended): in live mode a node whose CrushReweight to its target
\* succeeded is still in targetCrushWeightMap at the end of that cycle; the
\* next cycle that reaches the loop removes it and issues nothing for it.  In
\* the scenario, cycle 1 issues one CrushReweight per node to weight 4 and
\* keeps both nodes, and both are removed after cycle 2.
C10_RemovedNextCycle ==
    /\ \A o \in DOMAIN last.branch :
          (~dryRun /\ last.branch[o] = "applied") => o \in Managed
    /\ \A o \in DOMAIN last.target :
          (/\ ~dryRun
           /\ LoopReached
           /\ o \in DOMAIN last.ledger
           /\ last.ledger[o] = last.target[o]
           /\ o \notin last.retry)
              => o \notin Managed /\ o \notin IssuedOsds
    /\ C10_Scenario =>
          /\ (passed = 1 /\ last.outcome = "planned" /\ last.target = suppliedTarget)
                => last.issued = {<<1, 4>>, <<2, 4>>} /\ Managed = {1, 2}
          /\ passed >= 2 => Managed = {}

\* C10 witness: in the scenario both applies of cycle 1 succeeded and cycle 2
\* removed both nodes as achieved.
C10_Witness ==
    /\ C10_Scenario
    /\ passed = 2
    /\ last.branch = [o \in {1, 2} |-> "achieved"]
    /\ last.ledger = [o \in {1, 2} |-> 4]
    /\ Managed = {}

\* the node's crushWeightMap entry is what it was before the latest cycle
SameEntry(o) ==
    /\ (o \in DOMAIN crushWeightMap) = (o \in DOMAIN last.ledger)
    /\ (o \in DOMAIN crushWeightMap /\ o \in DOMAIN last.ledger)
          => crushWeightMap[o] = last.ledger[o]

\* C11 (as claimed): with increment 0 no cycle issues a CrushReweight and
\* targetCrushWeightMap keeps every node it was given.
C11_ZeroIncrementNoOp ==
    weightIncrement = 0
        => /\ last.issued = {}
           /\ targetCrushWeightMap = suppliedTarget

\* C11 (amended): with increment 0 no cycle changes a weight in the cluster (a
\* CrushReweight it issues carries the node's snapshot weight), but nodes are
\* removed all the same: none is left after two cycles that reach the loop, and
\* with a topology of zero nodes one cycle issues nothing and removes them all.
C11_ZeroIncrementDrains ==
    weightIncrement = 0
        => /\ \A p \in last.issued : p[2] = last.cws[p[1]]
           /\ osdTree = initialTree
           /\ passed >= 2 => Managed = {}
           /\ (initialTree = EmptyMap /\ LoopReached)
                 => last.issued = {} /\ Managed = {}

\* C11 witness: with increment 0 the second cycle removed a node by the
\* plateau rule after the first had re-issued its weight.
C11_Witness ==
    /\ weightIncrement = 0
    /\ passed = 2
    /\ Managed = {}
    /\ \E o \in DOMAIN last.branch :
          /\ last.branch[o] = "optimal"
          /\ last.ledger[o] = last.cws[o]
          /\ o \notin last.retry

\* C12 (as claimed): while the context is cancelled and Run has not returned,
\* no step of Run calls DoReweight.
C12_CancellationPriority ==
    [][(ctxDone /\ runState = "running") => last' = last]_vars

\* C14: a node whose snapshot weight is at or above its target is removed from
\* targetCrushWeightMap, no CrushReweight is issued for it and its
\* crushWeightMap entry is untouched.
C14_AchievedRemoved ==
    \A o \in DOMAIN last.cws :
        last.cws[o] >= last.target[o]
            => /\ o \notin Managed
               /\ o \notin IssuedOsds
               /\ SameEntry(o)

\* C14 witness: a live cycle found a node at its target that no earlier cycle
\* had reweighted.
C14_Witness ==
    \E o \in DOMAIN last.cws :
        /\ ~dryRun
        /\ last.cws[o] = last.target[o]
        /\ o \notin DOMAIN last.ledger
        /\ last.branch[o] = "achieved"
        /\ weightIncrement > 0

\* C15: a node below its target whose next weight, current + increment capped
\* at the target, equals its crushWeightMap entry is removed from
\* targetCrushWeightMap without a CrushReweight and without a ledger write.
C15_PlateauRemoved ==
    \A o \in DOMAIN last.cws :
        (/\ last.cws[o] < last.target[o]
         /\ o \in DOMAIN last.ledger
         /\ last.ledger[o] = Min(last.cws[o] + weightIncrement, last.target[o]))
            => /\ o \notin Managed
               /\ o \notin IssuedOsds
               /\ SameEntry(o)

\* C15 witness: a node below its target was removed by the plateau rule.
C15_Witness ==
    \E o \in DOMAIN last.cws :
        /\ last.branch[o] = "optimal"
        /\ last.cws[o] < last.target[o]
        /\ weightIncrement > 0
        /\ o \notin Managed

\* C16: targetCrushWeightMap only shrinks (no key is added, no kept entry is
\* changed), and a cycle evaluates and reweights only nodes that were in it
\* when the cycle started.
C16_OneWayRemoval ==
    [][/\ Managed' \subseteq Managed
       /\ \A o \in Managed' : targetCrushWeightMap'[o] = targetCrushWeightMap[o]
       /\ last' # last
             => /\ DOMAIN last'.branch \subseteq Managed
                /\ {p[1] : p \in last'.issued} \subseteq Managed]_vars

\* C16 witness: a cycle evaluated a node after another node had been removed
\* by an earlier cycle.
C16_Witness ==
    /\ last.outcome = "planned"
    /\ DOMAIN last.branch # {}
    /\ \E o \in DOMAIN suppliedTarget : o \notin DOMAIN last.target
    /\ last.issued # {}

\* the scenario of C17: targets {1: 2, 2: 2}, increment 4, both weights 0, live
C17_Scenario ==
    /\ suppliedTarget = [o \in {1, 2} |-> 2]
    /\ weightIncrement = 4
    /\ ~dryRun
    /\ initialTree = [o \in {1, 2} |-> [Type |-> "osd", CrushWeight |-> 0]]

\* C17: every weight passed to CrushReweight is min(current + increment,
\* target) for the snapshot weight of that cycle; in the scenario the first
\* cycle issues weight 2 for both nodes.
C17_IssuedIsCappedStep ==
    /\ \A p \in last.issued :
          p[2] = Min(last.cws[p[1]] + weightIncrement, last.target[p[1]])
    /\ (C17_Scenario /\ passed = 1 /\ last.outcome = "planned"
           /\ last.target = suppliedTarget)
          => last.issued = {<<1, 2>>, <<2, 2>>}

\* C17 witness: the first cycle of the scenario issued weight 2 to both nodes
\* and both commands succeeded.
C17_Witness ==
    /\ C17_Scenario
    /\ last.outcome = "planned"
    /\ last.branch = [o \in {1, 2} |-> "applied"]
    /\ last.issued = {<<1, 2>>, <<2, 2>>}

\* C19: a cycle whose backfilling or recovering query returns an error makes
\* no topology query, issues no CrushReweight, changes neither
\* targetCrushWeightMap nor crushWeightMap nor the cluster, and leaves Run
\* where it was.
C19_GateErrorSkips ==
    [][(last' # last /\ (last'.bpgs = QueryErr \/ last'.rpgs = QueryErr))
          => /\ last'.issued = {}
             /\ last'.cws = EmptyMap
             /\ last'.branch = EmptyMap
             /\ targetCrushWeightMap' = targetCrushWeightMap
             /\ crushWeightMap' = crushWeightMap
             /\ osdTree' = osdTree
             /\ runState' = runState]_vars

\* C19 witness: inside Run, a cycle was skipped on a query error while a live
\* node was still below its target, after an earlier cycle had reweighted.
C19_Witness ==
    /\ last.outcome \in {"backfillErr", "recoveryErr"}
    /\ runState = "running"
    /\ ~dryRun
    /\ passed >= 1
    /\ \E o \in Managed :
          /\ o \in DOMAIN osdTree
          /\ osdTree[o].Type = "osd"
          /\ osdTree[o].CrushWeight < targetCrushWeightMap[o]

C20_AbsentDroppedForGood ==
    /\ last.outcome = "planned"
          => \A o \in (DOMAIN last.target) \ (DOMAIN last.tree) :
                /\ o \notin Managed
                /\ o \notin IssuedOsds
                /\ o \in droppedAbsent
    /\ \A o \in droppedAbsent :
          /\ o \notin Managed
          /\ o \notin IssuedOsds
          /\ o \in DOMAIN last.branch => last.branch[o] = "absent"

\* C20 witness: a node removed as absent has since joined the cluster below
\* its target, and a live cycle that saw it there reweighted another node only.
C20_Witness ==
    \E o \in droppedAbsent :
        /\ ~dryRun
        /\ weightIncrement > 0
        /\ last.outcome = "planned"
        /\ o \notin DOMAIN last.target
        /\ o \in DOMAIN last.tree
        /\ last.tree[o].Type = "osd"
        /\ last.tree[o].CrushWeight < suppliedTarget[o]
        /\ last.issued # {}
        /\ o \notin Managed

\* C13 (as claimed): while a Collect is ranging over crushWeightMap, no step
\* of the loop writes to crushWeightMap or to targetCrushWeightMap.
C13_NoWriteDuringCollect ==
    [][(collect = "ranging" /\ collect' = "ranging")
          => /\ crushWeightMap' = crushWeightMap
             /\ targetCrushWeightMap' = targetCrushWeightMap]_vars

\* C21: a step in which Run returns is taken with the context cancelled or
\* with targetCrushWeightMap empty, and a step that runs a cycle, whatever
\* errors its queries and commands return, leaves Run running.
C21_ExitOnlyCancelOrDrain ==
    [][/\ (runState = "running" /\ runState' = "returned")
             => (ctxDone \/ Managed = {})
       /\ (runState = "running" /\ last' # last) => runState' = "running"]_vars

\* C21 witness: Run returned on an empty target map, never cancelled, after a
\* CrushReweight had failed in one cycle and a later cycle had still run.
C21_Witness ==
    /\ runState = "returned"
    /\ ~ctxDone
    /\ Managed = {}
    /\ last.retry # {}
    /\ faulted # {}

\* the ids whose crushweight gauge the step has just sent
JustEmitted == (DOMAIN emitted'.crushweight) \ (DOMAIN emitted.crushweight)

\* the step in which Collect reads len(targetCrushWeightMap) and returns
CollectReturns == collect = "ranging" /\ collect' = "idle"

\* C22 (as claimed): Collect sends a crushweight gauge only for ids that are
\* in targetCrushWeightMap, and a target_osds gauge that is the number of ids
\* in targetCrushWeightMap.
C22_GaugesOnlyTracked ==
    [][/\ \A o \in JustEmitted : o \in DOMAIN targetCrushWeightMap
       /\ CollectReturns => scraped' = Cardinality(DOMAIN targetCrushWeightMap)]_vars

\* C22 (amended): Collect sends a crushweight gauge for every entry of
\* crushWeightMap, whether its id is still in targetCrushWeightMap or has been
\* removed, with the value the entry holds when it is read; every entry that
\* was there when Collect began is sent, and if no entry was written meanwhile
\* the gauges are exactly crushWeightMap.  The target_osds gauge is the number
\* of ids in targetCrushWeightMap.
C22_GaugesPerLedgerEntry ==
    [][/\ \A o \in JustEmitted :
             /\ o \in DOMAIN crushWeightMap
             /\ emitted'.crushweight[o] = crushWeightMap[o]
       /\ CollectReturns =>
             /\ scraped' = Cardinality(DOMAIN targetCrushWeightMap)
             /\ DOMAIN emitted.base \subseteq DOMAIN emitted.crushweight
             /\ crushWeightMap = emitted.base => emitted.crushweight = crushWeightMap]_vars

\* C22 witness: a Collect has returned that sent the gauge of a node no
\* longer in targetCrushWeightMap, next to that of a node still in it.
C22_Witness ==
    /\ collect = "idle"
    /\ scraped = Cardinality(Managed)
    /\ emitted.crushweight = crushWeightMap
    /\ \E o \in DOMAIN emitted.crushweight : o \notin Managed
    /\ \E o \in DOMAIN emitted.crushweight : o \in Managed

\* C23: a cycle that starts with targetCrushWeightMap empty calls no
\* CrushReweight, evaluates no node and leaves targetCrushWeightMap,
\* crushWeightMap and the cluster as they were, each time it is repeated.
C23_EmptyTargetNoOp ==
    (last.outcome # "none" /\ last.target = EmptyMap)
        => /\ last.issued = {}
           /\ last.branch = EmptyMap
           /\ Managed = {}
           /\ crushWeightMap = last.ledger
           /\ last.outcome = "planned" => osdTree = last.tree

\* C23 witness: after the target map was drained by cycles that reweighted, a
\* cycle called on the empty map passed the gate and reached the loop.
C23_Witness ==
    /\ last.outcome = "planned"
    /\ last.target = EmptyMap
    /\ last.ledger # EmptyMap
    /\ \E o \in DOMAIN suppliedTarget :
          /\ reweightCount[o] >= 1
          /\ o \in DOMAIN osdTree
          /\ osdTree[o].CrushWeight < suppliedTarget[o]

\* the call of New was given no target, or an empty one
NoTargetGiven ==
    \/ ~construction.opt.withTargetCrushWeightMap
    \/ construction.opt.targetCrushWeightMap = EmptyMap

\* C24: New returns an error and no Rebalancer when the target map is empty or
\* not given, or when no ceph client is given; otherwise it returns a
\* Rebalancer holding the target map and every given option, with dry-run
\* on, both ceilings 10 and increment 0.02 where the option was not given.
C24_Construction ==
    construction.result # "pending" =>
        LET opt == construction.opt
        IN IF NoTargetGiven \/ ~opt.withCephClient
           THEN /\ construction.result \in {"no weight map found", "no ceph client found"}
                /\ targetCrushWeightMap = EmptyMap
                /\ maxBackfillPGsAllowed = 0
                /\ maxRecoveryPGsAllowed = 0
                /\ weightIncrement = 0
                /\ ~dryRun
           ELSE /\ construction.result = "ok"
                /\ targetCrushWeightMap = opt.targetCrushWeightMap
                /\ crushWeightMap = EmptyMap
                /\ dryRun = IF opt.withDryRun THEN opt.dryRun ELSE TRUE
                /\ maxBackfillPGsAllowed =
                      IF opt.withMaxBackfillPGsAllowed THEN opt.maxBackfillPGsAllowed ELSE 10
                /\ maxRecoveryPGsAllowed =
                      IF opt.withMaxRecoveryPGsAllowed THEN opt.maxRecoveryPGsAllowed ELSE 10
                /\ weightIncrement =
                      IF opt.withWeightIncrement THEN opt.weightIncrement ELSE 2

\* C24 witness: New was given a target map and every other option but no
\* ceph client, and returned the error.
C24_Witness ==
    /\ construction.result = "no ceph client found"
    /\ ~construction.opt.withCephClient
    /\ ~NoTargetGiven
    /\ construction.opt.withDryRun
    /\ construction.opt.withWeightIncrement
    /\ targetCrushWeightMap = EmptyMap

\* C25 (as claimed): a node removed by the plateau rule has, in the cluster,
\* the weight that was computed for it: the snapshot weight of the cycle
\* equals the crushWeightMap entry that triggered the rule.
C25_PlateauSound ==
    \A o \in DOMAIN last.branch :
        last.branch[o] = "optimal" => last.cws[o] = last.ledger[o]

\* C26: in a cycle that got a topology every node of targetCrushWeightMap is
\* evaluated, and every node that is below its target with a positive next
\* weight other than its crushWeightMap entry gets its CrushReweight in live
\* mode, whatever happened to the other nodes of the cycle.
C26_BatchNotAborted ==
    last.outcome = "planned" =>
        /\ DOMAIN last.branch = DOMAIN last.target
        /\ \A o \in DOMAIN last.cws :
              (/\ ~dryRun
               /\ last.cws[o] < last.target[o]
               /\ Min(last.cws[o] + weightIncrement, last.target[o]) > 0
               /\ ~(/\ o \in DOMAIN last.ledger
                    /\ last.ledger[o] = Min(last.cws[o] + weightIncrement, last.target[o])))
                  => <<o, Min(last.cws[o] + weightIncrement, last.target[o])>> \in last.issued

\* C26 witness: in one cycle a node was dropped or its CrushReweight failed,
\* and the CrushReweight of the other node succeeded.
C26_Witness ==
    /\ last.outcome = "planned"
    /\ \E o \in DOMAIN last.branch : last.branch[o] = "failed"
    /\ \E o \in DOMAIN last.branch :
          /\ last.branch[o] = "applied"
          /\ osdTree[o].CrushWeight > last.cws[o]

\* C27: while Run is running with targetCrushWeightMap empty, no step queries
\* the cluster or runs a cycle, and the tick makes Run return.
C27_DrainBeforeGate ==
    [][(runState = "running" /\ Managed = {})
          => /\ last' = last
             /\ passed' = passed
             /\ osdTree' = osdTree
             /\ crushWeightMap' = crushWeightMap
             /\ (runState' = "running" => ctxDone' /\ ~ctxDone)]_vars

\* C27 witness: the cycle that removed the last node was the last one, and
\* the tick after it made Run return without a cancellation.
C27_Witness ==
    /\ runState = "returned"
    /\ ~ctxDone
    /\ last.outcome = "planned"
    /\ last.target # EmptyMap
    /\ Managed = {}
    /\ \E o \in DOMAIN last.branch : last.branch[o] = "achieved" /\ reweightCount[o] >= 1

\* C28: every weight passed to CrushReweight is above 0, and a node whose next
\* weight is 0 or below is removed from targetCrushWeightMap in that cycle
\* without a CrushReweight and without a crushWeightMap write.
C28_NoNonPositiveApply ==
    /\ \A p \in last.issued : p[2] > 0
    /\ \A o \in DOMAIN last.cws :
          (/\ last.cws[o] < last.target[o]
           /\ Min(last.cws[o] + weightIncrement, last.target[o]) <= 0)
              => /\ o \notin Managed
                 /\ o \notin IssuedOsds
                 /\ SameEntry(o)

\* C28 witness: a live cycle with a negative increment removed a node whose
\* next weight was 0 or below.
C28_Witness ==
    \E o \in DOMAIN last.branch :
        /\ ~dryRun
        /\ weightIncrement < 0
        /\ last.branch[o] = "nonpositive"
        /\ last.cws[o] + weightIncrement <= 0
        /\ o \notin Managed

C30_AppliesManagedOnly ==
    \A o \in IssuedOsds :
        /\ o \in DOMAIN last.target
        /\ o \in Managed
        /\ o \in DOMAIN suppliedTarget
        /\ o \in DOMAIN last.tree
        /\ last.tree[o].Type = "osd"

\* C30 witness: a cycle reweighted one node while the other id of the target
\* map was a bucket of the topology, and that id got no CrushReweight.
C30_Witness ==
    /\ last.outcome = "planned"
    /\ last.issued # {}
    /\ \E o \in DOMAIN last.target :
          /\ o \in DOMAIN last.tree
          /\ last.tree[o].Type = "host"
          /\ o \notin IssuedOsds
          /\ o \notin Managed

\* C31: a cycle reaches the snapshot and the loop exactly when both count
\* queries returned a count and neither count is above its ceiling, a count
\* equal to the ceiling included; a cycle that does not reach them evaluates
\* no node, and one that got its topology evaluates every node.
C31_GateAdmitsExactly ==
    last.outcome # "none" =>
        /\ LoopReached <=> (/\ last.bpgs >= 0
                            /\ last.bpgs <= maxBackfillPGsAllowed
                            /\ last.rpgs >= 0
                            /\ last.rpgs <= maxRecoveryPGsAllowed)
        /\ ~LoopReached => /\ last.cws = EmptyMap
                           /\ last.tree = EmptyMap
                           /\ last.branch = EmptyMap
                           /\ last.issued = {}
        /\ last.outcome = "planned" => DOMAIN last.branch = DOMAIN last.target

\* C31 witness: with both counts equal to their ceilings a live cycle got
\* its topology and reweighted a node.
C31_Witness ==
    /\ last.outcome = "planned"
    /\ last.bpgs = maxBackfillPGsAllowed
    /\ last.rpgs = maxRecoveryPGsAllowed
    /\ \E o \in DOMAIN last.branch :
          /\ last.branch[o] = "applied"
          /\ osdTree[o].CrushWeight > last.cws[o]
====
